---- MODULE Spec2Model ----
(***************************************************************************)
(* Model of the domain Q&A agent tool:                                     *)
(*   src/qa/arcade_qa/tools/qa_tool.py  (qa_chat and its cache on the      *)
(*                                       ToolContext)                      *)
(*   src/arcade_qa/tools/qagent.py      (catalog loader, DomainQAAgent,    *)
(*                                       the AgentExecutor it configures)  *)
(***************************************************************************)
EXTENDS Integers, Sequences, FiniteSets, TLC

(***************************************************************************)
(* Bounds of the model                                                     *)
(***************************************************************************)
\* DomainQAAgent instances constructed on one context
MaxAgents == 2
\* tool invocations the language model requests in one achat run
MaxToolCalls == 1
\* records in a catalog handed to load_sites_data_from_json
MaxRecords == 2
\* longest catalog given to build_knowledge_sources_text
MaxSources == 3

(***************************************************************************)
(* Program constants                                                       *)
(***************************************************************************)
\* AgentExecutor(max_iterations=10)
max_iterations == 10

(***************************************************************************)
(* Inputs: configurations, catalog payloads, catalogs                      *)
(***************************************************************************)
\* The four tunables of qa_chat. llm_temperature is counted in tenths.
Config(t, mt, to, msr) ==
    [llm_temperature |-> t, llm_max_tokens |-> mt, llm_timeout |-> to,
     max_search_results |-> msr]

\* the defaults of qa_chat, and the same with one field changed
DefaultConfig == Config(0, 2048, 60, 5)
Configs == {DefaultConfig, Config(0, 2048, 60, 3)}

\* config_key = f"{llm_temperature}_{llm_max_tokens}_{llm_timeout}_{max_search_results}"
ConfigKey(c) ==
    ToString(c.llm_temperature) \o "_" \o ToString(c.llm_max_tokens) \o "_"
        \o ToString(c.llm_timeout) \o "_" \o ToString(c.max_search_results)

\* f'_cached_agent_{config_key}'
AgentAttr(config_key) == "_cached_agent_" \o config_key

required_columns == <<"site", "domain", "description">>

Source(s, d, desc) == [site |-> s, domain |-> d, description |-> desc]

\* The SITES_CONFIG secrets a call may see. Each is an opaque string; what
\* base64.b64decode, zlib.decompress and json.loads make of it is Decode.
Payloads ==
    {"PA", "PB", "PMissing", "PEmpty", "PGarbled", "PBadZlib", "PBadJson"}
\* context.get_secret finds no secret
NoSecret == ""

CatalogA == <<Source("docs.a.com", "alpha", "Alpha docs")>>
CatalogB == <<Source("docs.b.com", "beta", "Beta docs"),
              Source("api.b.com", "beta", "Beta API")>>
\* the second record has no description
CatalogMissing == <<Source("docs.a.com", "alpha", "Alpha docs"),
                    [site |-> "docs.c.com", domain |-> "gamma"]>>
\* every field is there, one is the empty string
CatalogEmpty == <<Source("docs.e.com", "epsilon", "")>>

\* what the three stages of lines 67-71 raise
DecodeError == "Incorrect padding"
DecompressError == "Error -3 while decompressing data: incorrect header check"
JSONError == "Expecting value: line 1 column 1 (char 0)"

\* lines 67-71: base64 -> zlib -> JSON; any of the three may raise
Decode(p) ==
    CASE p = "PA"       -> [raised |-> FALSE, value |-> CatalogA, error |-> ""]
      [] p = "PB"       -> [raised |-> FALSE, value |-> CatalogB, error |-> ""]
      [] p = "PMissing" ->
             [raised |-> FALSE, value |-> CatalogMissing, error |-> ""]
      [] p = "PEmpty"   ->
             [raised |-> FALSE, value |-> CatalogEmpty, error |-> ""]
      [] p = "PBadZlib" ->
             [raised |-> TRUE, value |-> <<>>, error |-> DecompressError]
      [] p = "PBadJson" ->
             [raised |-> TRUE, value |-> <<>>, error |-> JSONError]
      [] OTHER          ->
             [raised |-> TRUE, value |-> <<>>, error |-> DecodeError]

\* hash(sites_config_compressed): equal strings hash equal; the payloads of
\* the model have pairwise distinct hashes.
Hash(p) ==
    CASE p = "PA"       -> 101
      [] p = "PB"       -> 102
      [] p = "PMissing" -> 103
      [] p = "PEmpty"   -> 104
      [] p = "PBadZlib" -> 106
      [] p = "PBadJson" -> 107
      [] OTHER          -> 105

(***************************************************************************)
(* Exceptions (their messages) and the texts returned for them             *)
(***************************************************************************)
NoError == ""
SecretError == "secret not found"
ConstructionError == "tool manager initialisation failed"
ModelError == "model call failed"
ToolError == "tool call failed"
ColumnsError(i, missing_columns) ==
    "Missing required columns in record " \o ToString(i) \o ": "
        \o ToString(missing_columns)

\* qagent.py 259-262
AchatErrorText(e) == "Error: " \o e
\* qa_tool.py 106-109
QaChatErrorText(e) == "Error in qa_chat: " \o e
\* AgentExecutor's forced stop after max_iterations
StoppedText == "Agent stopped due to iteration limit or time limit."

(***************************************************************************)
(* load_sites_data_from_json                                               *)
(***************************************************************************)
\* [col for col in required_columns if col not in site]
\* (variant: required_columns cut down to "site")
MissingColumnsSiteOnly(site) ==
    SelectSeq(<<"site">>, LAMBDA col : col \notin DOMAIN site)
MissingColumns(site) ==
    SelectSeq(required_columns, LAMBDA col : col \notin DOMAIN site)

\* indices (from 1) of the records that lack a column
Incomplete(data) ==
    {i \in 1..Len(data) : MissingColumns(data[i]) /= <<>>}

FirstOf(S) == CHOOSE i \in S : \A j \in S : i <= j
LastOf(S) == CHOOSE i \in S : \A j \in S : j <= i

\* The loop raises at the first incomplete record; enumerate counts from 0.
\* (variant: every record is examined and the last incomplete one reported)
LoadReportsLast(data) ==
    IF Incomplete(data) = {}
    THEN [raised |-> FALSE, value |-> data, error |-> NoError]
    ELSE LET i == LastOf(Incomplete(data))
         IN  [raised |-> TRUE, value |-> <<>>,
              error |-> ColumnsError(i - 1, MissingColumns(data[i]))]
load_sites_data_from_json(data) ==
    IF Incomplete(data) = {}
    THEN [raised |-> FALSE, value |-> data, error |-> NoError]
    ELSE LET i == FirstOf(Incomplete(data))
         IN  [raised |-> TRUE, value |-> <<>>,
              error |-> ColumnsError(i - 1, MissingColumns(data[i]))]

(***************************************************************************)
(* State                                                                   *)
(***************************************************************************)
\* the concurrent qa_chat invocations the hosting runtime may have in flight
Requests == {"r1", "r2"}

VARIABLES
    context,            \* attributes qa_chat has set on the shared ToolContext
    agents,             \* the DomainQAAgent instances built so far; an Agent's
                        \* identity is its index
    pc,                 \* where each qa_chat invocation stands
    args,               \* its llm_* / max_search_results arguments and the
                        \* SITES_CONFIG secret it read
    agent,              \* its local `agent` (index into agents, 0: none)
    phase,              \* state of the AgentExecutor run started by achat
    iterations,         \* AgentExecutor's iteration counter
    intermediate_steps, \* AgentExecutor's (action, observation) transcript
    pending,            \* the tool being executed
    tool_input,         \* the input the model gave for it
    turns,              \* model calls awaited in this run
    result,             \* what ainvoke returned to achat (line 254)
    response,           \* the value qa_chat returned
    fault,              \* the exception that ended the call, if any
    last_call,          \* what the latest qa_chat call did before line 99
    sites_data,         \* argument of load_sites_data_from_json
    loaded,             \* its outcome
    knowledge           \* outcome of build_knowledge_sources_text(sites_data)

vars == <<context, agents, pc, args, agent, phase, iterations,
          intermediate_steps, pending, tool_input, turns, result, response, fault, last_call,
          sites_data, loaded, knowledge>>

cacheVars == <<context, agents, last_call>>
loopVars == <<phase, iterations, intermediate_steps, pending, tool_input,
              turns, result>>
loaderVars == <<sites_data, loaded, knowledge>>

\* getattr(context, name, None) is not None
HasAttr(ctx, name) == name \in DOMAIN ctx
\* setattr(context, name, value)
SetAttr(ctx, name, value) ==
    [n \in DOMAIN ctx \cup {name} |-> IF n = name THEN value ELSE ctx[n]]

NoArgs == [config |-> DefaultConfig, payload |-> NoSecret]
NoCall == [request |-> "", config |-> DefaultConfig, payload |-> NoSecret,
           path |-> "none", decoded |-> FALSE, constructed |-> FALSE,
           agent |-> 0]
\* ainvoke has returned nothing (yet)
NoResult == <<>>
NotLoaded == [called |-> FALSE, raised |-> FALSE, value |-> <<>>,
              error |-> NoError]

InitContext ==
    /\ context = <<>>
    /\ agents = <<>>
    /\ pc = [r \in Requests |-> "idle"]
    /\ args = [r \in Requests |-> NoArgs]
    /\ agent = [r \in Requests |-> 0]
    /\ phase = [r \in Requests |-> "NONE"]
    /\ iterations = [r \in Requests |-> 0]
    /\ intermediate_steps = [r \in Requests |-> <<>>]
    /\ pending = [r \in Requests |-> ""]
    /\ tool_input = [r \in Requests |-> ""]
    /\ turns = [r \in Requests |-> 0]
    /\ result = [r \in Requests |-> NoResult]
    /\ response = [r \in Requests |-> ""]
    /\ fault = [r \in Requests |-> NoError]
    /\ last_call = NoCall

NotBuilt == [called |-> FALSE, md |-> "", domains |-> <<>>]

Init ==
    /\ InitContext
    /\ sites_data = <<>>
    /\ loaded = NotLoaded
    /\ knowledge = NotBuilt

(***************************************************************************)
(* DomainQAAgent.__init__                                                  *)
(***************************************************************************)
\* the config dict of qa_tool.py 81-88
AgentConfig(cfg) ==
    [arcade_api_key |-> "arcade-key", google_api_key |-> "google-key",
     llm_temperature |-> cfg.llm_temperature,
     llm_max_tokens |-> cfg.llm_max_tokens,
     llm_timeout |-> cfg.llm_timeout,
     max_search_results |-> cfg.max_search_results]

\* Validation comes first (line 207); create_llm and create_arcade_tools
\* (209-210) reach external services and may raise (tools_ok = FALSE). The
\* prompt compiled by _create_agent is a function of sites_df and of
\* config["max_search_results"], so the instance is described by both.
DomainQAAgent(data, cfg, tools_ok) ==
    LET sites_df == load_sites_data_from_json(data)
    IN  IF sites_df.raised
        THEN [raised |-> TRUE, error |-> sites_df.error,
              config |-> AgentConfig(cfg), sites_df |-> <<>>]
        ELSE IF ~tools_ok
        THEN [raised |-> TRUE, error |-> ConstructionError,
              config |-> AgentConfig(cfg), sites_df |-> <<>>]
        ELSE [raised |-> FALSE, error |-> NoError,
              config |-> AgentConfig(cfg), sites_df |-> sites_df.value]

(***************************************************************************)
(* qa_chat, lines 37-101: everything up to `await agent.achat`. There is   *)
(* no suspension point in it, so it is one step.                           *)
(***************************************************************************)
CachedOutcome(ctx, heap, id) ==
    [context |-> ctx, agents |-> heap, error |-> NoError, agent |-> id,
     path |-> "cached", decoded |-> FALSE, constructed |-> FALSE]
FailedOutcome(ctx, heap, e, decoded) ==
    [context |-> ctx, agents |-> heap, error |-> e, agent |-> 0,
     path |-> "failed", decoded |-> decoded, constructed |-> FALSE]

\* lines 92-93 (variant: the setattr of line 96 left out)
BuildWithoutCaching(ctx, heap, cfg, sites, decoded, tools_ok) ==
    LET built == DomainQAAgent(sites, cfg, tools_ok)
        id == Len(heap) + 1
    IN  IF built.raised
        THEN FailedOutcome(ctx, heap, built.error, decoded)
        ELSE [context |-> ctx,
              agents |-> Append(heap, [config |-> built.config,
                                       sites_df |-> built.sites_df]),
              error |-> NoError, agent |-> id, path |-> "built",
              decoded |-> decoded, constructed |-> TRUE]

\* lines 92-97: build the Agent from sites and store it under the config key
BuildAndCache(ctx, heap, cfg, sites, decoded, tools_ok) ==
    LET built == DomainQAAgent(sites, cfg, tools_ok)
        id == Len(heap) + 1
    IN  IF built.raised
        THEN FailedOutcome(ctx, heap, built.error, decoded)
        ELSE [context |-> SetAttr(ctx, AgentAttr(ConfigKey(cfg)), id),
              agents |-> Append(heap, [config |-> built.config,
                                       sites_df |-> built.sites_df]),
              error |-> NoError, agent |-> id, path |-> "built",
              decoded |-> decoded, constructed |-> TRUE]

\* lines 74-75 (variants: line 75 left out, line 74 left out)
StoreDecodedDataOnly(ctx, data, h) == SetAttr(ctx, "_cached_sites_data", data)
StoreDecodedHashOnly(ctx, data, h) ==
    SetAttr(ctx, "_cached_sites_config_hash", h)
StoreDecoded(ctx, data, h) ==
    SetAttr(SetAttr(ctx, "_cached_sites_data", data),
            "_cached_sites_config_hash", h)

\* lines 67-71 raise before lines 74-75 are reached: the context is as it was
\* (variant: line 75 moved above the decoding)
HashStoredBeforeDecoding(ctx, h) == SetAttr(ctx, "_cached_sites_config_hash", h)
DecodingRaised(ctx, h) == ctx

\* lines 45-97
GetAgent(ctx, heap, cfg, payload, tools_ok) ==
    LET attr == AgentAttr(ConfigKey(cfg))
        current_sites_config_hash == Hash(payload)
        same_hash == /\ HasAttr(ctx, "_cached_sites_config_hash")
                     /\ ctx["_cached_sites_config_hash"]
                            = current_sites_config_hash
    IN  IF HasAttr(ctx, attr) /\ same_hash
        THEN CachedOutcome(ctx, heap, ctx[attr])
        ELSE IF ~HasAttr(ctx, "_cached_sites_data") \/ ~same_hash
        THEN LET json == Decode(payload)
             IN  IF json.raised
                 THEN FailedOutcome(
                          DecodingRaised(ctx, current_sites_config_hash),
                          heap, json.error, FALSE)
                 ELSE BuildAndCache(
                          StoreDecoded(ctx, json.value,
                                       current_sites_config_hash),
                          heap, cfg, json.value, TRUE, tools_ok)
        ELSE BuildAndCache(ctx, heap, cfg, ctx["_cached_sites_data"], FALSE,
                           tools_ok)

\* lines 41-43 and then 45-97; context.get_secret raises when a secret is
\* missing
Prepare(ctx, heap, cfg, payload, tools_ok) ==
    IF payload = NoSecret
    THEN FailedOutcome(ctx, heap, SecretError, FALSE)
    ELSE GetAgent(ctx, heap, cfg, payload, tools_ok)

\* lines 106-109: `except Exception` around the whole body
\* (variant: `try` opened after the get_secret calls)
QaChatExceptAfterSecrets(e) ==
    IF e = SecretError
    THEN [pc |-> "raised", response |-> ""]
    ELSE [pc |-> "returned", response |-> QaChatErrorText(e)]
QaChatExcept(e) == [pc |-> "returned", response |-> QaChatErrorText(e)]

\* agent_executor.ainvoke starts every run with an empty list of steps: the
\* AgentExecutor of lines 236-243 is given no memory
\* (variant: the steps of the previous run of the request are kept)
TranscriptKept(r) == intermediate_steps[r]
NewTranscript(r) == <<>>

QaChat(r, cfg, payload, tools_ok) ==
    \E out \in {Prepare(context, agents, cfg, payload, tools_ok)} :
    LET ended == QaChatExcept(out.error)
    IN  /\ pc[r] /= "awaiting"
        /\ Len(out.agents) <= MaxAgents
        /\ context' = out.context
        /\ agents' = out.agents
        /\ args' = [args EXCEPT ![r] = [config |-> cfg, payload |-> payload]]
        /\ agent' = [agent EXCEPT ![r] = out.agent]
        /\ last_call' = [request |-> r, config |-> cfg, payload |-> payload,
                         path |-> out.path, decoded |-> out.decoded,
                         constructed |-> out.constructed, agent |-> out.agent]
        /\ iterations' = [iterations EXCEPT ![r] = 0]
        /\ intermediate_steps' =
               [intermediate_steps EXCEPT ![r] = NewTranscript(r)]
        /\ pending' = [pending EXCEPT ![r] = ""]
        /\ tool_input' = [tool_input EXCEPT ![r] = ""]
        /\ turns' = [turns EXCEPT ![r] = 0]
        /\ result' = [result EXCEPT ![r] = NoResult]
        /\ fault' = [fault EXCEPT ![r] = out.error]
        /\ IF out.error = NoError
           THEN /\ pc' = [pc EXCEPT ![r] = "awaiting"]
                /\ phase' = [phase EXCEPT ![r] = "AWAITING_ACTION"]
                /\ response' = [response EXCEPT ![r] = ""]
           ELSE /\ pc' = [pc EXCEPT ![r] = ended.pc]
                /\ phase' = [phase EXCEPT ![r] = "NONE"]
                /\ response' = [response EXCEPT ![r] = ended.response]
        /\ UNCHANGED loaderVars

Call(r) ==
    \E cfg \in Configs, payload \in Payloads \cup {NoSecret},
       tools_ok \in BOOLEAN :
        QaChat(r, cfg, payload, tools_ok)

(***************************************************************************)
(* achat, lines 245-262: agent_executor.ainvoke drives the loop the        *)
(* AgentExecutor of lines 236-243 is configured for; the model call and    *)
(* the tool call are its suspension points. What follows a resumption up   *)
(* to the next suspension (or to qa_chat's return, lines 103-104) is one   *)
(* step.                                                                   *)
(***************************************************************************)
\* tools=["Search.SearchGoogle", "Web.ScrapeUrl"], line 95
ToolNames == {"Search.SearchGoogle", "Web.ScrapeUrl"}
Observation(tool) ==
    IF tool = "Search.SearchGoogle" THEN "search results" ELSE "page content"

\* the link of the search results, and a URL no search returns
ResultUrl == "https://docs.a.com/guide"
OtherUrl == "https://elsewhere.example/page"
\* the links of an observation ("a list of search results with titles, links,
\* and snippets", line 36)
Links(observation) ==
    IF observation = "search results" THEN {ResultUrl} ELSE {}
\* what the model passes to a tool when it follows the prompt: a query with a
\* site: operator (line 31), the URL of a search result (line 152)
PromptedInput(tool) ==
    IF tool = "Search.SearchGoogle" THEN "guide site:docs.a.com" ELSE ResultUrl

FailureReport == "error: provider failure"

\* the texts a Final Answer may carry
Answers == {"It is configured in settings.", "I can only answer about: alpha"}

\* handle_parsing_errors=True, line 242 (variant: left at its default)
parsing_errors_raised == FALSE
handle_parsing_errors == TRUE
\* the step recorded for an action that cannot be parsed
CorrectiveStep ==
    [action |-> "_Exception", tool_input |-> "Invalid or incomplete response",
     observation |-> "Invalid or incomplete response"]
ParsingError == "An output parsing error occurred"

ToolCalls(steps) ==
    Cardinality({i \in 1..Len(steps) : steps[i].action \in ToolNames})

\* max_iterations=10, line 240: the loop goes on while iterations is below it
\* (variant: one iteration too many)
ShouldContinueOffByOne(n) == n <= max_iterations
ShouldContinue(n) == n < max_iterations

\* lines 259-262: `except Exception` around ainvoke
AchatExcept(e) == [pc |-> "returned", response |-> AchatErrorText(e)]

\* line 255: response.get("output", "I couldn't process your request.")
\* (variant: another key is read)
AchatAnswerWrongKey(res) ==
    IF "answer" \in DOMAIN res THEN res.answer
    ELSE "I couldn't process your request."
AchatAnswer(res) ==
    IF "output" \in DOMAIN res THEN res.output
    ELSE "I couldn't process your request."

\* ainvoke returns `output` (return_intermediate_steps=True adds the
\* transcript); achat returns the answer and qa_chat returns it (lines
\* 255-257, 103-104)
Return(r, ph, output, steps) ==
    \E res \in {[output |-> output, intermediate_steps |-> steps]} :
        /\ phase' = [phase EXCEPT ![r] = ph]
        /\ result' = [result EXCEPT ![r] = res]
        /\ pc' = [pc EXCEPT ![r] = "returned"]
        /\ response' = [response EXCEPT ![r] = AchatAnswer(res)]
        /\ UNCHANGED fault

\* an exception leaves ainvoke
Raise(r, e) ==
    LET ended == AchatExcept(e)
    IN  /\ phase' = [phase EXCEPT ![r] = "FAILED"]
        /\ UNCHANGED result
        /\ pc' = [pc EXCEPT ![r] = ended.pc]
        /\ response' = [response EXCEPT ![r] = ended.response]
        /\ fault' = [fault EXCEPT ![r] = e]

\* an iteration ends with `step` recorded: iterations += 1, then the loop
\* test; when it fails the run is stopped by force and its text returned
EndIteration(r, step) ==
    /\ intermediate_steps' =
           [intermediate_steps EXCEPT ![r] = Append(@, step)]
    /\ iterations' = [iterations EXCEPT ![r] = @ + 1]
    /\ pending' = [pending EXCEPT ![r] = ""]
    /\ tool_input' = [tool_input EXCEPT ![r] = ""]
    /\ IF ShouldContinue(iterations[r] + 1)
       THEN /\ phase' = [phase EXCEPT ![r] = "AWAITING_ACTION"]
            /\ UNCHANGED <<pc, response, fault, result>>
       ELSE Return(r, "ABORTED", StoppedText,
                   Append(intermediate_steps[r], step))

\* the run of r is at the suspension point ph; the runs share the Agent but
\* hold no lock on it
\* (variant: a run waits while another run's tool call is outstanding)
InLoopOneToolAtATime(r, ph) ==
    /\ pc[r] = "awaiting"
    /\ phase[r] = ph
    /\ \A q \in Requests \ {r} : phase[q] /= "EXECUTING_TOOL"
InLoop(r, ph) == pc[r] = "awaiting" /\ phase[r] = ph

\* the model answers with a Final Answer
ModelFinalAnswer(r) ==
    \E text \in Answers :
        /\ InLoop(r, "AWAITING_ACTION")
        /\ turns' = [turns EXCEPT ![r] = @ + 1]
        /\ Return(r, "DONE", text, intermediate_steps[r])
        /\ UNCHANGED <<iterations, intermediate_steps, pending, tool_input>>
        /\ UNCHANGED <<cacheVars, args, agent, loaderVars>>

\* The model names a tool and its input: the AgentExecutor looks the name up
\* among its tools and runs the tool on that input, whatever the transcript
\* holds so far.
Execute(r, tool, input) ==
    /\ InLoop(r, "AWAITING_ACTION")
    /\ ToolCalls(intermediate_steps[r]) < MaxToolCalls
    /\ turns' = [turns EXCEPT ![r] = @ + 1]
    /\ phase' = [phase EXCEPT ![r] = "EXECUTING_TOOL"]
    /\ pending' = [pending EXCEPT ![r] = tool]
    /\ tool_input' = [tool_input EXCEPT ![r] = input]
    /\ UNCHANGED <<iterations, intermediate_steps, pc, response, fault, result>>
    /\ UNCHANGED <<cacheVars, args, agent, loaderVars>>

\* the model names one of the two tools
ModelToolCall(r) ==
    \E tool \in ToolNames : Execute(r, tool, PromptedInput(tool))

\* the model asks for a page that no search result linked
ModelFetchesOther(r) == Execute(r, "Web.ScrapeUrl", OtherUrl)

\* The model's output is no parsable action: with handle_parsing_errors
\* the error is recorded as a step and the model is asked again.
ModelUnparsable(r) ==
    /\ InLoop(r, "AWAITING_ACTION")
    /\ turns' = [turns EXCEPT ![r] = @ + 1]
    /\ IF handle_parsing_errors
       THEN EndIteration(r, CorrectiveStep)
       ELSE /\ Raise(r, ParsingError)
            /\ UNCHANGED <<iterations, intermediate_steps, pending,
                           tool_input>>
    /\ UNCHANGED <<cacheVars, args, agent, loaderVars>>

\* the model call raises (timeout, provider error)
ModelRaises(r) ==
    /\ InLoop(r, "AWAITING_ACTION")
    /\ turns' = [turns EXCEPT ![r] = @ + 1]
    /\ Raise(r, ModelError)
    /\ UNCHANGED <<iterations, intermediate_steps, pending, tool_input>>
    /\ UNCHANGED <<cacheVars, args, agent, loaderVars>>

\* the tool returns its result
ToolReturns(r) ==
    /\ InLoop(r, "EXECUTING_TOOL")
    /\ EndIteration(r, [action |-> pending[r], tool_input |-> tool_input[r],
                        observation |-> Observation(pending[r])])
    /\ UNCHANGED <<turns, cacheVars, args, agent, loaderVars>>

\* the tool returns a value that describes a failure of the provider
ToolReportsFailure(r) ==
    /\ InLoop(r, "EXECUTING_TOOL")
    /\ EndIteration(r, [action |-> pending[r], tool_input |-> tool_input[r],
                        observation |-> FailureReport])
    /\ UNCHANGED <<turns, cacheVars, args, agent, loaderVars>>

\* The tool raises (network, quota, bad URL). Neither the tools (line 95)
\* nor the AgentExecutor (lines 236-243) are given a handler for tool
\* errors, so the exception leaves ainvoke.
ToolRaises(r) ==
    /\ InLoop(r, "EXECUTING_TOOL")
    /\ Raise(r, ToolError)
    /\ UNCHANGED <<iterations, intermediate_steps, pending, tool_input, turns>>
    /\ UNCHANGED <<cacheVars, args, agent, loaderVars>>

(***************************************************************************)
(* Specifications                                                          *)
(***************************************************************************)
\* Calls on one context one after the other (request r1), any configuration
\* and payload; conversations in which the model always emits a parsable
\* action. Lines 37-101 run without suspension, so overlapping requests see
\* the cache states that calls made one after the other produce.
Next ==
    \/ Call("r1")
    \/ ModelFinalAnswer("r1")
    \/ ModelToolCall("r1")
    \/ ModelRaises("r1")
    \/ ToolReturns("r1")
    \/ ToolRaises("r1")

Spec == Init /\ [][Next]_vars

\* One configuration and one valid payload; conversations in full, the
\* unparsable actions included.
CallDefault ==
    \E tools_ok \in BOOLEAN : QaChat("r1", DefaultConfig, "PA", tools_ok)

NextLoop ==
    \/ CallDefault
    \/ ModelFinalAnswer("r1")
    \/ ModelToolCall("r1")
    \/ ModelFetchesOther("r1")
    \/ ModelUnparsable("r1")
    \/ ModelRaises("r1")
    \/ ToolReturns("r1")
    \/ ToolReportsFailure("r1")
    \/ ToolRaises("r1")

LoopSpec == Init /\ [][NextLoop]_vars

\* Requests that overlap on one context: each is one qa_chat coroutine of the
\* same event loop, all with the default configuration and the payload "PA".
\* A coroutine runs from one suspension point to the next, so the steps of the
\* requests interleave.
CallSame(r) ==
    \E tools_ok \in BOOLEAN : QaChat(r, DefaultConfig, "PA", tools_ok)

\* a step of the run of r that the model or a tool completes
Resume(r) ==
    \/ ModelFinalAnswer(r)
    \/ ModelToolCall(r)
    \/ ModelRaises(r)
    \/ ToolReturns(r)
    \/ ToolRaises(r)

NextConc == \E r \in Requests : CallSame(r) \/ Resume(r)

ConcSpec == Init /\ [][NextConc]_vars

\* The same requests when the tool call of r1 may stay outstanding for ever:
\* nothing is assumed of r1, while the model and tool calls of r2 complete
\* (the event loop resumes a coroutine whose awaited call has completed).
WedgedSpec == Init /\ [][NextConc]_vars /\ WF_vars(Resume("r2"))

\* The catalog loader on its own: any sequence of at most MaxRecords records,
\* each with any of the three columns, empty or not.
ColumnValues == {"", "docs"}
Records ==
    UNION {[D -> ColumnValues] : D \in SUBSET {"site", "domain", "description"}}
Catalogs == UNION {[1..n -> Records] : n \in 0..MaxRecords}

InitLoader ==
    /\ InitContext
    /\ sites_data \in Catalogs
    /\ loaded = NotLoaded
    /\ knowledge = NotBuilt

Load ==
    /\ ~loaded.called
    /\ \E out \in {load_sites_data_from_json(sites_data)} :
           loaded' = [called |-> TRUE, raised |-> out.raised,
                      value |-> out.value, error |-> out.error]
    /\ UNCHANGED <<cacheVars, loopVars, pc, args, agent, response, fault,
                   sites_data, knowledge>>

NextLoader == Load

LoaderSpec == InitLoader /\ [][NextLoader]_vars

(***************************************************************************)
(* build_knowledge_sources_text                                            *)
(***************************************************************************)
\* domain_groups is a dict: its keys in insertion order, and their values
NoGroups == [keys |-> <<>>, value |-> <<>>]

\* a loop body that opens a new group for every record
AddSiteAlwaysNew(acc, site) ==
    LET domain == site.domain
    IN  [domains |-> Append(acc.domains, domain),
         domain_groups |->
             [keys |-> IF \E k \in 1..Len(acc.domain_groups.keys) :
                              acc.domain_groups.keys[k] = domain
                       THEN acc.domain_groups.keys
                       ELSE Append(acc.domain_groups.keys, domain),
              value |-> [d \in DOMAIN acc.domain_groups.value \cup {domain} |->
                            IF d = domain
                            THEN <<[site |-> site.site,
                                    description |-> site.description]>>
                            ELSE acc.domain_groups.value[d]]]]

\* the body of the first loop (lines 110-116)
AddSite(acc, site) ==
    LET domain == site.domain
        known == domain \in DOMAIN acc.domain_groups.value
        opened == IF known THEN acc.domain_groups.value[domain] ELSE <<>>
    IN  [domains |-> IF known THEN acc.domains ELSE Append(acc.domains, domain),
         domain_groups |->
             [keys |-> IF known THEN acc.domain_groups.keys
                       ELSE Append(acc.domain_groups.keys, domain),
              value |-> [d \in DOMAIN acc.domain_groups.value \cup {domain} |->
                            IF d = domain
                            THEN Append(opened,
                                        [site |-> site.site,
                                         description |-> site.description])
                            ELSE acc.domain_groups.value[d]]]]

RECURSIVE GroupSites(_, _)
GroupSites(sites, acc) ==
    IF sites = <<>> THEN acc
    ELSE GroupSites(Tail(sites), AddSite(acc, Head(sites)))

SourceLine(source) == "- " \o source.site \o ": " \o source.description \o "\n"

RECURSIVE SourceLines(_)
SourceLines(sources) ==
    IF sources = <<>> THEN ""
    ELSE SourceLine(Head(sources)) \o SourceLines(Tail(sources))

Section(domain, sources) ==
    "\n## " \o domain \o "\n\n" \o SourceLines(sources) \o "\n"

\* the second loop (lines 119-123), over the items of the dict in key order
RECURSIVE Sections(_, _)
Sections(keys, value) ==
    IF keys = <<>> THEN ""
    ELSE Section(Head(keys), value[Head(keys)]) \o Sections(Tail(keys), value)

build_knowledge_sources_text(sites) ==
    LET acc == GroupSites(sites, [domains |-> <<>>, domain_groups |-> NoGroups])
    IN  [knowledge_sources_md |->
             Sections(acc.domain_groups.keys, acc.domain_groups.value),
         domains |-> acc.domains]

\* The builder on its own: any validated catalog of at most MaxSources
\* records.
DomainNames == {"api", "guides", "blog"}
SiteNames == {"a.com", "b.org"}
ValidRecords == {Source(sn, dn, "docs") : sn \in SiteNames, dn \in DomainNames}
ValidCatalogs == UNION {[1..n -> ValidRecords] : n \in 0..MaxSources}

InitBuilder ==
    /\ InitContext
    /\ sites_data \in ValidCatalogs
    /\ loaded = NotLoaded
    /\ knowledge = NotBuilt

Build ==
    /\ ~knowledge.called
    /\ \E out \in {build_knowledge_sources_text(sites_data)} :
           knowledge' = [called |-> TRUE, md |-> out.knowledge_sources_md,
                         domains |-> out.domains]
    /\ UNCHANGED <<cacheVars, loopVars, pc, args, agent, response, fault,
                   sites_data, loaded>>

NextBuilder == Build

BuilderSpec == InitBuilder /\ [][NextBuilder]_vars

(***************************************************************************)
(* Properties                                                              *)
(***************************************************************************)
\* the four tunables an Agent was constructed with
Tunables(c) ==
    Config(c.llm_temperature, c.llm_max_tokens, c.llm_timeout,
           c.max_search_results)

\* C1: a qa_chat call never raises to its caller; a call that ended is a
\* call that returned a text, and when something failed during the call
\* (secret retrieval, payload decoding, catalog validation, Agent
\* construction, a model call, a tool call) that text is the error text made
\* from the failure.
C1_AlwaysReturnsText ==
    \A r \in Requests :
        /\ pc[r] \in {"idle", "awaiting", "returned"}
        /\ pc[r] = "returned" /\ fault[r] = NoError =>
               response[r] \in Answers \cup {StoppedText}
        /\ pc[r] = "returned" /\ fault[r] /= NoError =>
               response[r] = IF phase[r] = "NONE"
                             THEN QaChatErrorText(fault[r])
                             ELSE AchatErrorText(fault[r])
        /\ fault[r] /= NoError => pc[r] = "returned"

\* C1 witness: a tool call failed and the call returned the error text
C1_Witness ==
    /\ pc["r1"] = "returned"
    /\ fault["r1"] = ToolError
    /\ response["r1"] = AchatErrorText(ToolError)

\* C2: the Agent a call is answered by was constructed from that call's four
\* configuration values and from that call's catalog payload.
C2_AgentBuiltFromThisCall ==
    \A r \in Requests :
        agent[r] /= 0 =>
            /\ Tunables(agents[agent[r]].config) = args[r].config
            /\ agents[agent[r]].sites_df = Decode(args[r].payload).value

\* C3: a call that follows, on the same context, a call that constructed or
\* reused an Agent, with the same configuration and the same payload, uses
\* the same Agent instance, decodes nothing and constructs nothing.
C3_RepeatedCallReusesAgent ==
    [][(/\ last_call' /= last_call
        /\ last_call.path \in {"built", "cached"}
        /\ last_call'.config = last_call.config
        /\ last_call'.payload = last_call.payload)
       => (/\ last_call'.path = "cached"
           /\ last_call'.agent = last_call.agent
           /\ ~last_call'.decoded
           /\ ~last_call'.constructed
           /\ agents' = agents
           /\ context' = context)]_vars

\* C3 witness: a call was answered by the cached Agent, which had been built
\* from the configuration and payload of this call
C3_Witness ==
    /\ last_call.path = "cached"
    /\ agent["r1"] = last_call.agent
    /\ Tunables(agents[last_call.agent].config) = last_call.config
    /\ agents[last_call.agent].sites_df = Decode(last_call.payload).value

\* the payload of the call decodes to a list with a record that lacks a column
IncompletePayload(payload) ==
    /\ payload \in Payloads
    /\ ~Decode(payload).raised
    /\ \E i \in 1..Len(Decode(payload).value) :
           ~({"site", "domain", "description"}
                 \subseteq DOMAIN Decode(payload).value[i])

\* C4: a call whose payload decodes to a list with a record that lacks site,
\* domain or description returns an error text at once and is never answered
\* by an Agent, new or cached.
C4_IncompleteCatalogNeverAnswered ==
    \A r \in Requests :
        pc[r] /= "idle" /\ IncompletePayload(args[r].payload) =>
            /\ agent[r] = 0
            /\ pc[r] = "returned"
            /\ phase[r] = "NONE"
            /\ response[r] = QaChatErrorText(fault[r])
            /\ fault[r] /= NoError

\* C5: load_sites_data_from_json returns its argument unchanged when every
\* record has the three columns; otherwise it raises, returns nothing, and
\* the error names the index (from 0) of the first record that lacks a column
\* and the columns that record lacks.
C5_LoaderGate ==
    loaded.called =>
        LET lacking == {i \in 1..Len(sites_data) :
                            ~({"site", "domain", "description"}
                                  \subseteq DOMAIN sites_data[i])}
        IN  IF lacking = {}
            THEN ~loaded.raised /\ loaded.value = sites_data
            ELSE LET i == CHOOSE k \in lacking : \A j \in lacking : k <= j
                     names == SelectSeq(<<"site", "domain", "description">>,
                                  LAMBDA c : c \notin DOMAIN sites_data[i])
                 IN  /\ loaded.raised
                     /\ loaded.value = <<>>
                     /\ loaded.error = ColumnsError(i - 1, names)

\* C5 witness: the loader refused a catalog whose second record lacks columns
C5_Witness ==
    /\ loaded.called
    /\ loaded.raised
    /\ Len(sites_data) = 2
    /\ DOMAIN sites_data[1] = {"site", "domain", "description"}
    /\ DOMAIN sites_data[2] = {"site"}
    /\ loaded.error = ColumnsError(1, <<"domain", "description">>)

\* C6: every source held by a constructed Agent has site, domain and
\* description, present and not empty.
C6_SourcesPresentAndNonEmpty ==
    \A id \in 1..Len(agents) :
        \A i \in 1..Len(agents[id].sites_df) :
            \A col \in {"site", "domain", "description"} :
                /\ col \in DOMAIN agents[id].sites_df[i]
                /\ agents[id].sites_df[i][col] /= ""

\* C6 as amended: every source held by a constructed Agent has site, domain
\* and description present (any of them may be the empty string).
C6_SourcesPresent ==
    \A id \in 1..Len(agents) :
        \A i \in 1..Len(agents[id].sites_df) :
            {"site", "domain", "description"}
                \subseteq DOMAIN agents[id].sites_df[i]

\* C6 witness: an Agent was constructed from a catalog with an empty field
C6_Witness ==
    \E id \in 1..Len(agents) :
        \E i \in 1..Len(agents[id].sites_df) :
            /\ {"site", "domain", "description"}
                   \subseteq DOMAIN agents[id].sites_df[i]
            /\ agents[id].sites_df[i].description = ""

\* any step of the reasoning loop of request r
LoopStep(r) ==
    \/ ModelFinalAnswer(r)
    \/ ModelToolCall(r)
    \/ ModelFetchesOther(r)
    \/ ModelUnparsable(r)
    \/ ModelRaises(r)
    \/ ToolReturns(r)
    \/ ToolReportsFailure(r)
    \/ ToolRaises(r)

\* C7: the step counter never exceeds 10; a run that is still going has taken
\* fewer than 10 steps; after 10 steps without a Final Answer the run is
\* ABORTED and the call has returned a text, without an error.
C7_StepLimit ==
    \A r \in Requests :
        /\ iterations[r] <= max_iterations
        /\ phase[r] \in {"AWAITING_ACTION", "EXECUTING_TOOL"} =>
               iterations[r] < max_iterations
        /\ iterations[r] = max_iterations => phase[r] = "ABORTED"
        /\ phase[r] = "ABORTED" =>
               /\ iterations[r] = max_iterations
               /\ pc[r] = "returned"
               /\ response[r] = StoppedText
               /\ fault[r] = NoError

\* C7 witness: a run that took 10 steps and was aborted
C7_Witness ==
    /\ phase["r1"] = "ABORTED"
    /\ iterations["r1"] = max_iterations
    /\ Len(intermediate_steps["r1"]) = max_iterations
    /\ \E i \in 1..max_iterations :
           intermediate_steps["r1"][i].action \in ToolNames
    /\ pc["r1"] = "returned"

\* C8: whatever the model emits, a run makes at most 10 model calls: every
\* model call that did not end the run, the unparsable ones included, is
\* recorded as a step and counted; an unparsable action never ends the run
\* with an error; a run that has not ended can take a step; a run that ended
\* is DONE or ABORTED unless a model call or a tool call raised.
C8_BoundedTurns ==
    \A r \in Requests :
        /\ turns[r] <= max_iterations
        /\ Len(intermediate_steps[r]) = iterations[r]
        /\ phase[r] = "AWAITING_ACTION" => turns[r] = iterations[r]
        /\ phase[r] = "EXECUTING_TOOL" => turns[r] = iterations[r] + 1
        /\ pc[r] = "awaiting" =>
               /\ phase[r] \in {"AWAITING_ACTION", "EXECUTING_TOOL"}
               /\ ENABLED LoopStep(r)
        /\ pc[r] = "returned" /\ phase[r] /= "NONE" =>
               \/ phase[r] \in {"DONE", "ABORTED"}
               \/ phase[r] = "FAILED" /\ fault[r] \in {ModelError, ToolError}

\* C8 witness: the model emitted an unparsable action on each of 10 turns and
\* the run was aborted
C8_Witness ==
    /\ phase["r1"] = "ABORTED"
    /\ turns["r1"] = max_iterations
    /\ \A i \in 1..max_iterations :
           intermediate_steps["r1"][i] = CorrectiveStep

\* C9: when a tool invocation fails, whether the tool raises or returns a
\* description of the failure, the failure is recorded as the observation of a
\* new step, the run goes on (AWAITING_ACTION, or ABORTED at the step limit)
\* and the call does not end with that failure.
C9_ToolFailureBecomesObservation ==
    [][\A r \in Requests :
           ToolRaises(r) \/ ToolReportsFailure(r) =>
               /\ Len(intermediate_steps'[r]) = Len(intermediate_steps[r]) + 1
               /\ intermediate_steps'[r][Len(intermediate_steps'[r])].action
                      = pending[r]
               /\ phase'[r] \in {"AWAITING_ACTION", "ABORTED"}
               /\ fault'[r] = NoError]_vars

\* C10: a run is DONE only by a Final Answer: the call has returned exactly
\* the text of that Final Answer, the Final Answer was the last model call of
\* the run, and no step of the run can follow.
C10_FinalAnswerReturned ==
    \A r \in Requests :
        phase[r] = "DONE" =>
            /\ pc[r] = "returned"
            /\ "output" \in DOMAIN result[r]
            /\ result[r].output \in Answers
            /\ response[r] = result[r].output
            /\ fault[r] = NoError
            /\ turns[r] = iterations[r] + 1
            /\ result[r].intermediate_steps = intermediate_steps[r]
            /\ ~ENABLED LoopStep(r)

\* C10 witness: a Final Answer after a tool action whose observation was fed
\* back
C10_Witness ==
    /\ phase["r1"] = "DONE"
    /\ Len(intermediate_steps["r1"]) >= 1
    /\ intermediate_steps["r1"][1] =
           [action |-> "Search.SearchGoogle",
            tool_input |-> PromptedInput("Search.SearchGoogle"),
            observation |-> Observation("Search.SearchGoogle")]
    /\ response["r1"] \in Answers

\* the tools executed so far in the run of r, in order, the one in execution
\* included
Executed(r) ==
    LET done == SelectSeq(intermediate_steps[r],
                          LAMBDA st : st.action \in ToolNames)
    IN  IF phase[r] = "EXECUTING_TOOL" \/ (phase[r] = "FAILED" /\ pending[r] /= "")
        THEN Append(done, [action |-> pending[r], tool_input |-> tool_input[r],
                           observation |-> ""])
        ELSE done

\* C11: in a conversation the first tool executed is the search; a page is
\* fetched only after a search was executed, and only from a URL that an
\* earlier search result of the conversation held.
C11_SearchBeforeFetch ==
    \A r \in Requests :
        LET tools == Executed(r)
        IN  /\ tools /= <<>> => tools[1].action = "Search.SearchGoogle"
            /\ \A i \in 1..Len(tools) :
                   tools[i].action = "Web.ScrapeUrl" =>
                       \E j \in 1..(i - 1) :
                           /\ tools[j].action = "Search.SearchGoogle"
                           /\ tools[i].tool_input \in Links(tools[j].observation)

\* the domains of a catalog, and the index at which a domain is first seen
DomainsOf(sites) == {sites[i].domain : i \in 1..Len(sites)}
FirstSeen(sites, d) ==
    CHOOSE i \in 1..Len(sites) :
        /\ sites[i].domain = d
        /\ \A j \in 1..(i - 1) : sites[j].domain /= d
\* the sources of a domain, in input order
SourcesOf(sites, d) ==
    LET of == SelectSeq(sites, LAMBDA st : st.domain = d)
    IN  [k \in 1..Len(of) |->
            [site |-> of[k].site, description |-> of[k].description]]

\* C12: for a validated catalog the domain list holds each distinct domain
\* once, in first-seen order, and the listing has one group per domain, none
\* empty, holding the sources of that domain in input order, so that every
\* input source is listed once.
C12_DomainsAndGroups ==
    knowledge.called =>
        LET ds == knowledge.domains
            groups == [d \in DomainsOf(sites_data) |-> SourcesOf(sites_data, d)]
        IN  /\ Len(ds) = Cardinality(DomainsOf(sites_data))
            /\ {ds[k] : k \in 1..Len(ds)} = DomainsOf(sites_data)
            /\ \A k, l \in 1..Len(ds) :
                   k < l => FirstSeen(sites_data, ds[k]) < FirstSeen(sites_data, ds[l])
            /\ \A d \in DomainsOf(sites_data) : groups[d] /= <<>>
            /\ knowledge.md = Sections(ds, groups)

C12_Witness ==
    /\ knowledge.called
    /\ Len(sites_data) = 3
    /\ sites_data[1].domain = "guides"
    /\ sites_data[2].domain = "api"
    /\ sites_data[3].domain = "guides"
    /\ sites_data[1].site /= sites_data[3].site
    /\ knowledge.domains = <<"guides", "api">>

\* C13: requests with the same configuration and payload that overlap on one
\* context construct the Agent once, and every one of them that is answered by
\* an Agent is answered by that instance.
C13_OneAgentForOverlappingRequests ==
    /\ Len(agents) <= 1
    /\ \A r \in Requests :
           pc[r] = "awaiting" =>
               /\ Len(agents) = 1
               /\ agent[r] = 1
               /\ HasAttr(context, AgentAttr(ConfigKey(DefaultConfig)))
               /\ context[AgentAttr(ConfigKey(DefaultConfig))] = 1
    /\ \A r \in Requests : agent[r] \in {0, 1}

C13_Witness ==
    /\ pc["r1"] = "awaiting"
    /\ pc["r2"] = "awaiting"
    /\ agent["r1"] = agent["r2"]
    /\ Len(agents) = 1
    /\ last_call.path = "cached"

\* C14: nothing of a conversation is kept for the next one. Every achat call,
\* on a new Agent or on a cached one, after other calls or while others are in
\* flight, starts in AWAITING_ACTION with an empty transcript and the step
\* counter at 0; and no step of any call changes an Agent that exists.
C14_FreshTranscriptEveryCall ==
    [][/\ \A r \in Requests :
              (pc[r] /= "awaiting" /\ pc'[r] = "awaiting") =>
                  /\ phase'[r] = "AWAITING_ACTION"
                  /\ intermediate_steps'[r] = <<>>
                  /\ iterations'[r] = 0
                  /\ pending'[r] = ""
       /\ \A id \in 1..Len(agents) :
              /\ id <= Len(agents')
              /\ agents'[id] = agents[id]]_vars

C14_Witness ==
    /\ last_call.request = "r2"
    /\ last_call.path = "cached"
    /\ pc["r2"] = "awaiting"
    /\ phase["r2"] = "AWAITING_ACTION"
    /\ intermediate_steps["r2"] = <<>>
    /\ iterations["r2"] = 0
    /\ result["r2"] = NoResult
    /\ agent["r1"] = agent["r2"]
    /\ pc["r1"] = "awaiting"
    /\ Len(intermediate_steps["r1"]) >= 1

\* C15: while the tool call of one request stays outstanding, another request
\* served by the same cached Agent still runs to its return.
C15_OtherRequestCompletes ==
    (/\ phase["r1"] = "EXECUTING_TOOL"
     /\ pc["r2"] = "awaiting"
     /\ agent["r2"] = agent["r1"])
        ~> (pc["r2"] = "returned")

C15_Witness ==
    /\ pc["r1"] = "awaiting"
    /\ phase["r1"] = "EXECUTING_TOOL"
    /\ last_call.request = "r2"
    /\ last_call.path = "cached"
    /\ agent["r2"] = agent["r1"]
    /\ pc["r2"] = "returned"
    /\ phase["r2"] = "DONE"
    /\ response["r2"] \in Answers

\* C16: on one context an Agent is constructed at most once for a pair of
\* configuration values and payload: no two Agents were built from the same
\* configuration and the same catalog.
C16_AtMostOncePerPair ==
    \A i, j \in 1..Len(agents) : i /= j => agents[i] /= agents[j]

\* C17: a call whose payload cannot be decoded returns an error text and
\* leaves the cache as it was: the stored hash, the stored catalog and every
\* cached Agent.
C17_DecodingFailureLeavesCache ==
    [][(/\ last_call' /= last_call
        /\ last_call'.payload /= NoSecret
        /\ Decode(last_call'.payload).raised)
           => /\ context' = context
              /\ agents' = agents
              /\ pc'[last_call'.request] = "returned"
              /\ response'[last_call'.request] =
                     QaChatErrorText(Decode(last_call'.payload).error)]_vars

C17_Witness ==
    /\ last_call.payload = "PBadJson"
    /\ pc["r1"] = "returned"
    /\ response["r1"] = QaChatErrorText(JSONError)
    /\ HasAttr(context, "_cached_sites_config_hash")
    /\ context["_cached_sites_config_hash"] = Hash("PA")
    /\ context["_cached_sites_data"] = CatalogA
    /\ Len(agents) >= 1

\* C18: the stored hash and the stored catalog go together: the stored
\* catalog is the decoding of the payload that has the stored hash; and an
\* Agent is built only once both are those of the call's payload.
C18_HashAndCatalogAgree ==
    /\ HasAttr(context, "_cached_sites_config_hash")
           <=> HasAttr(context, "_cached_sites_data")
    /\ HasAttr(context, "_cached_sites_config_hash") =>
           \E p \in Payloads :
               /\ Hash(p) = context["_cached_sites_config_hash"]
               /\ ~Decode(p).raised
               /\ context["_cached_sites_data"] = Decode(p).value
    /\ last_call.constructed =>
           /\ HasAttr(context, "_cached_sites_config_hash")
           /\ context["_cached_sites_config_hash"] = Hash(last_call.payload)
           /\ context["_cached_sites_data"] = Decode(last_call.payload).value
           /\ agents[last_call.agent].sites_df = context["_cached_sites_data"]

C18_Witness ==
    /\ last_call.constructed
    /\ last_call.decoded
    /\ last_call.payload = "PB"
    /\ Len(agents) = 2
    /\ agents[1].sites_df = CatalogA
    /\ context["_cached_sites_config_hash"] = Hash("PB")
    /\ context["_cached_sites_data"] = CatalogB

====
